---- MODULE Spec2Model ----
(***************************************************************************)
(* A model of bf-rust: lowering of source text to the instruction IR, the  *)
(* bracket linker, the bytecode codec, the optimisation passes with their  *)
(* convergence loop, and the interpreter.                                  *)
(*                                                                         *)
(* Indices are kept as the Rust code keeps them (0-based); a TLA+ sequence *)
(* s holds the element of Rust index i at s[i + 1].                        *)
(***************************************************************************)
EXTENDS Integers, Sequences, FiniteSets, TLC

VARIABLES
    pc,          \* position of the modelled run
    text,        \* the input bytes (source text, or a bytecode stream)
    unlinked,    \* UnlinkedInstructions produced by from_text
    link_res,    \* Result<LinkedInstructions, Error> of link
    linked,      \* a LinkedInstructions value handed to the codec or to a pass
    decoded,     \* what from_bytecode returned, or the panic that ended it
    overflow_checks, \* the build: TRUE panics on integer overflow, FALSE wraps
    pass,        \* the pass applied to `linked`
    pass_mid,    \* group_instructions: the coalesced sequence, before the filter
    pass_out,    \* the pass's output, or the panic that ended it
    opts,        \* optimise: the enabled passes
    prev,        \* optimise: `prev`
    result,      \* optimise: `result`
    counter,     \* optimise: `counter`
    opt_res,     \* what optimise returned, or the panic that ended it
    ip,          \* interpreter: instruction pointer
    dp,          \* interpreter: data pointer
    memory,      \* interpreter: the tape, as the function of its non-zero cells
    bracket_matches, \* interpreter: the lookup array of matching brackets
    writer,      \* interpreter: bytes held in the output buffer
    stdout,      \* bytes delivered to the output stream
    stdin,       \* what the input stream still holds
    run_res,     \* what the run returned, or the panic that ended it
    steps,       \* instructions executed by the run
    plain,       \* the unoptimised run, kept for the comparison
    stdout_fails \* the output stream rejects every write

optvars == <<opts, prev, result, counter, opt_res>>

runvars == <<ip, dp, memory, bracket_matches, writer, stdout, stdin, run_res,
             steps, plain, stdout_fails>>

vars == <<pc, text, unlinked, link_res, linked, decoded, overflow_checks,
          pass, pass_mid, pass_out, optvars, runvars>>

(***************************************************************************)
(* Bounds of the model.                                                    *)
(***************************************************************************)
MaxTextLen == 4
MaxCodecLen == 2
MaxStreamLen == 3
MaxPassLen == 4
MaxOptLen == 3
MaxNest == 12

(***************************************************************************)
(* instruction/mod.rs: the Instruction enum.  One record shape for every   *)
(* variant; a field a variant does not have is 0.                          *)
(***************************************************************************)
IncrDp(a) == [op |-> "IncrDp", amount |-> a, offset |-> 0, destination |-> 0]

Incr(a, o) == [op |-> "Incr", amount |-> a, offset |-> o, destination |-> 0]

BranchIfZero(d) == [op |-> "BranchIfZero", amount |-> 0, offset |-> 0, destination |-> d]

BranchIfNotZero(d) == [op |-> "BranchIfNotZero", amount |-> 0, offset |-> 0, destination |-> d]

Read == [op |-> "Read", amount |-> 0, offset |-> 0, destination |-> 0]

Write == [op |-> "Write", amount |-> 0, offset |-> 0, destination |-> 0]

Set(a, o) == [op |-> "Set", amount |-> a, offset |-> o, destination |-> 0]

Mul(a, o) == [op |-> "Mul", amount |-> a, offset |-> o, destination |-> 0]

(***************************************************************************)
(* error.rs: the results the pipeline returns.                             *)
(***************************************************************************)
Ok(insts) == [tag |-> "Ok", insts |-> insts, pos |-> 0]

MissingOpeningBracket(p) == [tag |-> "MissingOpeningBracket", insts |-> <<>>, pos |-> p]

MissingClosingBracket(p) == [tag |-> "MissingClosingBracket", insts |-> <<>>, pos |-> p]

NoResult == [tag |-> "None", insts |-> <<>>, pos |-> 0]

(***************************************************************************)
(* The source bytes, by their ASCII codes.                                 *)
(***************************************************************************)
ByteGt == 62
ByteLt == 60
BytePlus == 43
ByteMinus == 45
ByteOpen == 91
ByteClose == 93
ByteComma == 44
ByteDot == 46
ByteSpace == 32

SourceBytes == {ByteGt, ByteLt, BytePlus, ByteMinus, ByteOpen, ByteClose,
                ByteComma, ByteDot, ByteSpace}

SeqsUpTo(S, n) == UNION {[1..k -> S] : k \in 0..n}

(***************************************************************************)
(* instruction/unlinked.rs: from_text.                                     *)
(***************************************************************************)
from_text_byte_minus_as_plus(byte) ==
    IF byte = ByteGt THEN <<IncrDp(1)>>
    ELSE IF byte = ByteLt THEN <<IncrDp(-1)>>
    ELSE IF byte = BytePlus THEN <<Incr(1, 0)>>
    ELSE IF byte = ByteMinus THEN <<Incr(1, 0)>>
    ELSE IF byte = ByteOpen THEN <<BranchIfZero(0)>>
    ELSE IF byte = ByteClose THEN <<BranchIfNotZero(0)>>
    ELSE IF byte = ByteComma THEN <<Read>>
    ELSE IF byte = ByteDot THEN <<Write>>
    ELSE <<>>

\* The match of one byte: the instruction pushed, or nothing (`continue`).
from_text_byte(byte) ==
    IF byte = ByteGt THEN <<IncrDp(1)>>
    ELSE IF byte = ByteLt THEN <<IncrDp(-1)>>
    ELSE IF byte = BytePlus THEN <<Incr(1, 0)>>
    ELSE IF byte = ByteMinus THEN <<Incr(-1, 0)>>
    ELSE IF byte = ByteOpen THEN <<BranchIfZero(0)>>
    ELSE IF byte = ByteClose THEN <<BranchIfNotZero(0)>>
    ELSE IF byte = ByteComma THEN <<Read>>
    ELSE IF byte = ByteDot THEN <<Write>>
    ELSE <<>>

RECURSIVE from_text_loop(_, _, _)
from_text_loop(bytes, k, unlinked_insts) ==
    IF k > Len(bytes) THEN unlinked_insts
    ELSE from_text_loop(bytes, k + 1, unlinked_insts \o from_text_byte(bytes[k]))

from_text(bytes) == from_text_loop(bytes, 1, <<>>)

(***************************************************************************)
(* instruction/unlinked.rs: link.                                          *)
(***************************************************************************)
Top(stack) == stack[Len(stack)]

Pop(stack) == SubSeq(stack, 1, Len(stack) - 1)

link_close_nowriteback(insts, i, opening_idx) ==
    [insts EXCEPT ![i + 1] = BranchIfNotZero(opening_idx)]

\* The two writes of a matched `]` at index i with its `[` at opening_idx.
link_close(insts, i, opening_idx) ==
    [insts EXCEPT ![i + 1] = BranchIfNotZero(opening_idx),
                  ![opening_idx + 1] = BranchIfZero(i)]

link_end_ignore_open(insts, jump_stack) == Ok(insts)

link_end_bottom(insts, jump_stack) ==
    IF jump_stack # <<>>
    THEN MissingClosingBracket(jump_stack[1])
    ELSE Ok(insts)

\* After the loop: an open `[` left on the stack is an error at the popped index.
link_end(insts, jump_stack) ==
    IF jump_stack # <<>>
    THEN MissingClosingBracket(Top(jump_stack))
    ELSE Ok(insts)

RECURSIVE link_loop(_, _, _)
link_loop(insts, i, jump_stack) ==
    IF i >= Len(insts) THEN link_end(insts, jump_stack)
    ELSE IF insts[i + 1].op = "BranchIfZero"
         THEN link_loop(insts, i + 1, Append(jump_stack, i))
    ELSE IF insts[i + 1].op = "BranchIfNotZero"
         THEN IF jump_stack = <<>>
              THEN MissingOpeningBracket(i)
              ELSE link_loop(link_close(insts, i, Top(jump_stack)), i + 1, Pop(jump_stack))
    ELSE link_loop(insts, i + 1, jump_stack)

link(insts) == link_loop(insts, 0, <<>>)

\* The optimiser's variables while optimise is not running.
OptIdle ==
    /\ opts = {}
    /\ prev = <<>>
    /\ result = <<>>
    /\ counter = 0
    /\ opt_res = NoResult

\* The unoptimised run before it has been made.
NoPlain == [input |-> <<>>, out |-> <<>>, tag |-> "None"]

\* The interpreter's variables while nothing is run.
RunIdle ==
    /\ ip = 0
    /\ dp = 0
    /\ memory = <<>>
    /\ bracket_matches = <<>>
    /\ writer = <<>>
    /\ stdout = <<>>
    /\ stdin = <<>>
    /\ run_res = NoResult
    /\ steps = 0
    /\ plain = NoPlain
    /\ stdout_fails = FALSE

(***************************************************************************)
(* Lowering and linking of a source text.                                  *)
(***************************************************************************)
InitLink ==
    /\ pc = "text"
    /\ text \in SeqsUpTo(SourceBytes, MaxTextLen)
    /\ unlinked = <<>>
    /\ link_res = NoResult
    /\ linked = <<>>
    /\ decoded = NoResult
    /\ overflow_checks = FALSE
    /\ pass = "none"
    /\ pass_mid = <<>>
    /\ pass_out = NoResult
    /\ OptIdle
    /\ RunIdle

FromText ==
    /\ pc = "text"
    /\ unlinked' = from_text(text)
    /\ pc' = "unlinked"
    /\ UNCHANGED <<text, link_res, linked, decoded, overflow_checks, pass, pass_mid, pass_out, optvars, runvars>>

Link ==
    /\ pc = "unlinked"
    /\ link_res' = link(unlinked)
    /\ pc' = "linked"
    /\ UNCHANGED <<text, unlinked, linked, decoded, overflow_checks, pass, pass_mid, pass_out, optvars, runvars>>

NextLink == FromText \/ Link

SpecLink == InitLink /\ [][NextLink]_vars

(***************************************************************************)
(* Bracket structure of an instruction sequence, stated without the        *)
(* linker's stack: by counting.                                            *)
(***************************************************************************)
IsOpen(insts, i) == insts[i + 1].op = "BranchIfZero"

IsClose(insts, i) == insts[i + 1].op = "BranchIfNotZero"

\* Opens minus closes among the indices lo..hi (inclusive, 0-based).
Net(insts, lo, hi) ==
    Cardinality({k \in lo..hi : IsOpen(insts, k)})
        - Cardinality({k \in lo..hi : IsClose(insts, k)})

Indices(insts) == 0..(Len(insts) - 1)

Balanced(insts) ==
    /\ \A k \in Indices(insts) : Net(insts, 0, k) >= 0
    /\ Net(insts, 0, Len(insts) - 1) = 0

\* j closes the open at i: the first index after i where the count returns to 0.
Closes(insts, i, j) ==
    /\ i < j
    /\ IsOpen(insts, i)
    /\ IsClose(insts, j)
    /\ Net(insts, i, j) = 0
    /\ \A k \in i..(j - 1) : Net(insts, i, k) > 0

UnclosedOpens(insts) ==
    {i \in Indices(insts) :
        IsOpen(insts, i) /\ ~\E j \in Indices(insts) : Closes(insts, i, j)}

UnopenedCloses(insts) ==
    {j \in Indices(insts) :
        IsClose(insts, j) /\ ~\E i \in Indices(insts) : Closes(insts, i, j)}

MaxOf(S) == CHOOSE x \in S : \A y \in S : y <= x

MinOf(S) == CHOOSE x \in S : \A y \in S : x <= y

\* The brackets of the source text itself.
TextBrackets(bytes) ==
    LET IsBracket(b) == b \in {ByteOpen, ByteClose}
        br == SelectSeq(bytes, IsBracket)
    IN [k \in 1..Len(br) |->
            IF br[k] = ByteOpen THEN BranchIfZero(0) ELSE BranchIfNotZero(0)]

(***************************************************************************)
(* Claims about lowering and linking.                                      *)
(***************************************************************************)

\* C2: link(lower(P)) is Ok exactly when the brackets of P are balanced and
\* properly nested; a reported position p lies in [0, |lower(P)|) and the
\* instruction at p is a branch of the kind the error names.
C2_LinkOkIffBalanced ==
    pc = "linked" =>
        /\ (link_res.tag = "Ok") <=> Balanced(TextBrackets(text))
        /\ link_res.tag \in {"Ok", "MissingOpeningBracket", "MissingClosingBracket"}
        /\ link_res.tag = "MissingOpeningBracket" =>
              /\ link_res.pos \in Indices(unlinked)
              /\ IsClose(unlinked, link_res.pos)
        /\ link_res.tag = "MissingClosingBracket" =>
              /\ link_res.pos \in Indices(unlinked)
              /\ IsOpen(unlinked, link_res.pos)

C2_Witness ==
    /\ pc = "linked"
    /\ link_res.tag = "MissingClosingBracket"
    /\ link_res.pos > 0
    /\ Len(unlinked) < Len(text)

\* C3 (as claimed): at the end of the IR with open brackets left, link fails
\* with MissingClosingBracket(p), p the outermost (first opened) unclosed `[`.
C3_ReportsOutermostOpen ==
    (pc = "linked" /\ UnopenedCloses(unlinked) = {} /\ UnclosedOpens(unlinked) # {}) =>
        /\ link_res.tag = "MissingClosingBracket"
        /\ link_res.pos = MinOf(UnclosedOpens(unlinked))

\* C3 (amended): at the end of the IR with open brackets left, link fails
\* with MissingClosingBracket(p), p the innermost (last opened) unclosed `[`,
\* the top of the stack.
C3_ReportsInnermostOpen ==
    (pc = "linked" /\ UnopenedCloses(unlinked) = {} /\ UnclosedOpens(unlinked) # {}) =>
        /\ link_res.tag = "MissingClosingBracket"
        /\ link_res.pos = MaxOf(UnclosedOpens(unlinked))

C3_Witness ==
    /\ pc = "linked"
    /\ link_res.tag = "MissingClosingBracket"
    /\ Cardinality(UnclosedOpens(unlinked)) >= 2
    /\ link_res.pos = MaxOf(UnclosedOpens(unlinked))

\* C4: in a successfully linked IR every `[` at i holds the index j > i of
\* the `]` that closes it and that `]` holds i; every `]` is paired so; the
\* pairs are the properly nested bracket pairs, and nothing else changed.
C4_LinkSymmetry ==
    (pc = "linked" /\ link_res.tag = "Ok") =>
        LET L == link_res.insts IN
        /\ Len(L) = Len(unlinked)
        /\ \A i \in Indices(L) :
              /\ L[i + 1].op = unlinked[i + 1].op
              /\ ~(IsOpen(L, i) \/ IsClose(L, i)) => L[i + 1] = unlinked[i + 1]
              /\ IsOpen(L, i) =>
                    LET j == L[i + 1].destination IN
                    /\ j \in Indices(L)
                    /\ Closes(unlinked, i, j)
                    /\ L[j + 1] = BranchIfNotZero(i)
              /\ IsClose(L, i) =>
                    LET j == L[i + 1].destination IN
                    /\ j \in Indices(L)
                    /\ Closes(unlinked, j, i)
                    /\ L[j + 1] = BranchIfZero(i)

C4_Witness ==
    /\ pc = "linked"
    /\ link_res.tag = "Ok"
    /\ Len(link_res.insts) = 4
    /\ link_res.insts[1] = BranchIfZero(3)
    /\ link_res.insts[2] = BranchIfZero(2)

\* C9: lowering emits one instruction per recognised byte, in input order,
\* by the fixed mapping, and nothing for any other byte.
C9_LoweringMapping ==
    pc = "unlinked" =>
        LET Recognised(b) ==
                b \in {ByteGt, ByteLt, BytePlus, ByteMinus, ByteOpen, ByteClose,
                       ByteComma, ByteDot}
            kept == SelectSeq(text, Recognised)
            Lowered(b) ==
                CASE b = ByteGt -> IncrDp(1)
                  [] b = ByteLt -> IncrDp(-1)
                  [] b = BytePlus -> Incr(1, 0)
                  [] b = ByteMinus -> Incr(-1, 0)
                  [] b = ByteOpen -> BranchIfZero(0)
                  [] b = ByteClose -> BranchIfNotZero(0)
                  [] b = ByteComma -> Read
                  [] b = ByteDot -> Write
        IN /\ Len(unlinked) = Len(kept)
           /\ Len(unlinked) = Cardinality({k \in 1..Len(text) : Recognised(text[k])})
           /\ \A k \in 1..Len(kept) : unlinked[k] = Lowered(kept[k])

C9_Witness ==
    /\ pc = "unlinked"
    /\ Len(text) = 4
    /\ Len(unlinked) = 2
    /\ unlinked[1] = Incr(-1, 0)
    /\ text[1] = ByteSpace

(***************************************************************************)
(* instruction/mod.rs: Instruction::to_bytecode, and                       *)
(* instruction/linked.rs: LinkedInstructions::to_bytecode.                 *)
(***************************************************************************)
\* `amount as u8`: the two's-complement byte of an i8.
as_u8(amount) == amount % 256

\* i64::to_be_bytes / u64::to_be_bytes for |n| < 2^31: the four high bytes
\* are the sign extension, the four low bytes the two's-complement digits.
to_be_bytes(n) ==
    [k \in 1..8 |->
        IF k <= 4 THEN (IF n < 0 THEN 255 ELSE 0)
        ELSE (n \div (256 ^ (8 - k))) % 256]

to_bytecode_inst(inst) ==
    CASE inst.op = "IncrDp" -> <<0>> \o to_be_bytes(inst.amount)
      [] inst.op = "Incr" -> <<1, as_u8(inst.amount)>> \o to_be_bytes(inst.offset)
      [] inst.op = "BranchIfZero" -> <<2>> \o to_be_bytes(inst.destination)
      [] inst.op = "BranchIfNotZero" -> <<3>> \o to_be_bytes(inst.destination)
      [] inst.op = "Read" -> <<4>>
      [] inst.op = "Write" -> <<5>>
      [] inst.op = "Set" -> <<6, as_u8(inst.amount)>> \o to_be_bytes(inst.offset)
      [] inst.op = "Mul" -> <<7, as_u8(inst.amount)>> \o to_be_bytes(inst.offset)

RECURSIVE to_bytecode_loop(_, _, _)
to_bytecode_loop(insts, k, bytes) ==
    IF k > Len(insts) THEN bytes
    ELSE to_bytecode_loop(insts, k + 1, bytes \o to_bytecode_inst(insts[k]))

to_bytecode(insts) == to_bytecode_loop(insts, 1, <<>>)

(***************************************************************************)
(* instruction/linked.rs: LinkedInstructions::from_bytecode.  It builds    *)
(* the variants its match arms name: Right, Left, Add, Sub, BranchIfZero,  *)
(* BranchIfNotZero, Read, Write, Clear.                                    *)
(***************************************************************************)
Right(n) == [op |-> "Right", amount |-> n, offset |-> 0, destination |-> 0]

Left(n) == [op |-> "Left", amount |-> n, offset |-> 0, destination |-> 0]

Add(n) == [op |-> "Add", amount |-> n, offset |-> 0, destination |-> 0]

Sub(n) == [op |-> "Sub", amount |-> n, offset |-> 0, destination |-> 0]

Clear == [op |-> "Clear", amount |-> 0, offset |-> 0, destination |-> 0]

\* A panic: `unwrap()` on None, `unreachable!()`, or an arithmetic overflow
\* under overflow checks.
Panic(why) == [tag |-> why, insts |-> <<>>, pos |-> 0]

PanicTags == {"PanicUnwrap", "PanicUnreachable", "PanicOverflow"}

\* u64::from_be_bytes.  A value of 2^31 or more is kept as 2^31 - 1 (the
\* largest integer TLC holds); such a value never equals an encoded
\* field, which is below 2^31 in magnitude.
from_be_bytes(parts) ==
    IF parts[1] = 0 /\ parts[2] = 0 /\ parts[3] = 0 /\ parts[4] = 0 /\ parts[5] < 128
    THEN parts[5] * (256 ^ 3) + parts[6] * (256 ^ 2) + parts[7] * 256 + parts[8]
    ELSE 2147483647

\* One turn of `while let Some(b) = byte_iter.next()`: the instruction read
\* at 1-based position k and the position after it, or the panic.
from_bytecode_inst(bytes, k) ==
    LET b == bytes[k]
        have(n) == k + n <= Len(bytes)
        parts == SubSeq(bytes, k + 1, k + 8)
    IN CASE b = 0 -> IF have(8) THEN [inst |-> Right(from_be_bytes(parts)), next |-> k + 9]
                     ELSE [panic |-> "PanicUnwrap"]
         [] b = 1 -> IF have(8) THEN [inst |-> Left(from_be_bytes(parts)), next |-> k + 9]
                     ELSE [panic |-> "PanicUnwrap"]
         [] b = 2 -> IF have(1) THEN [inst |-> Add(bytes[k + 1]), next |-> k + 2]
                     ELSE [panic |-> "PanicUnwrap"]
         [] b = 3 -> IF have(1) THEN [inst |-> Sub(bytes[k + 1]), next |-> k + 2]
                     ELSE [panic |-> "PanicUnwrap"]
         [] b = 4 -> IF have(8) THEN [inst |-> BranchIfZero(from_be_bytes(parts)), next |-> k + 9]
                     ELSE [panic |-> "PanicUnwrap"]
         [] b = 5 -> IF have(8) THEN [inst |-> BranchIfNotZero(from_be_bytes(parts)), next |-> k + 9]
                     ELSE [panic |-> "PanicUnwrap"]
         [] b = 6 -> [inst |-> Read, next |-> k + 1]
         [] b = 7 -> [inst |-> Write, next |-> k + 1]
         [] b = 8 -> [inst |-> Clear, next |-> k + 1]
         [] OTHER -> [panic |-> "PanicUnreachable"]

RECURSIVE from_bytecode_loop(_, _, _)
from_bytecode_loop(bytes, k, instructions) ==
    IF k > Len(bytes) THEN Ok(instructions)
    ELSE LET r == from_bytecode_inst(bytes, k) IN
         IF "panic" \in DOMAIN r THEN Panic(r.panic)
         ELSE from_bytecode_loop(bytes, r.next, Append(instructions, r.inst))

from_bytecode(bytes) == from_bytecode_loop(bytes, 1, <<>>)

(***************************************************************************)
(* The codec: a linked IR encoded and decoded again, or a byte stream      *)
(* decoded.                                                                *)
(***************************************************************************)
CodecInstructions ==
    {IncrDp(1), IncrDp(-1), IncrDp(300), Incr(1, 0), Incr(-1, 2), BranchIfZero(0),
     BranchIfNotZero(0), Read, Write, Set(0, 0), Set(5, -1), Mul(3, 1)}

StreamBytes == {0, 2, 4, 6, 7, 8, 9, 255}

InitCodec ==
    /\ overflow_checks = FALSE
    /\ pass = "none"
    /\ pass_mid = <<>>
    /\ pass_out = NoResult
    /\ OptIdle
    /\ RunIdle
    /\ unlinked = <<>>
    /\ link_res = NoResult
    /\ decoded = NoResult
    /\ \/ /\ pc = "to_bytecode"
          /\ text = <<>>
          /\ \E u \in SeqsUpTo(CodecInstructions, MaxCodecLen) :
                /\ link(u).tag = "Ok"
                /\ linked = link(u).insts
       \/ /\ pc = "from_bytecode"
          /\ text \in SeqsUpTo(StreamBytes, MaxStreamLen)
          /\ linked = <<>>

ToBytecode ==
    /\ pc = "to_bytecode"
    /\ text' = to_bytecode(linked)
    /\ pc' = "from_bytecode"
    /\ UNCHANGED <<unlinked, link_res, linked, decoded, overflow_checks, pass, pass_mid, pass_out, optvars, runvars>>

FromBytecode ==
    /\ pc = "from_bytecode"
    /\ decoded' = from_bytecode(text)
    /\ pc' = "decoded"
    /\ UNCHANGED <<text, unlinked, link_res, linked, overflow_checks, pass, pass_mid, pass_out, optvars, runvars>>

NextCodec == ToBytecode \/ FromBytecode

SpecCodec == InitCodec /\ [][NextCodec]_vars

\* C5: decoding the encoding of a well-formed linked IR L yields an IR equal
\* to L: same length, same variant and same fields at every index.
C5_RoundTrip ==
    (pc = "decoded" /\ text = to_bytecode(linked)) =>
        /\ decoded.tag = "Ok"
        /\ decoded.insts = linked

\* C6: a stream whose next opcode byte is not one of the listed opcodes
\* (0 to 7) ends in a fatal error; the decoder returns no instruction
\* sequence for it.
C6_UnknownOpcodeIsFatal ==
    (pc = "decoded" /\ text # <<>> /\ text[1] \notin 0..7) =>
        decoded.tag \in PanicTags

(***************************************************************************)
(* Cell arithmetic of the passes: `a + b` on i8 (Cell).  An overflow       *)
(* panics in a build with overflow checks and wraps in one without.        *)
(***************************************************************************)
wrap_i8(n) == ((n + 128) % 256) - 128

overflows_i8(n) == n < -128 \/ n > 127

(***************************************************************************)
(* optimise.rs: combine_clears.                                            *)
(***************************************************************************)
\* The pattern that takes `-` only: a mutant.
IsUnitIncrAtZero_minus_only(inst) ==
    inst.op = "Incr" /\ inst.offset = 0 /\ inst.amount = -1

IsUnitIncrAtZero(inst) ==
    inst.op = "Incr" /\ inst.offset = 0 /\ (inst.amount = 1 \/ inst.amount = -1)

\* The loop that peeks at the Incr of a partial match without consuming it,
\* so that the Incr is emitted twice: a mutant.
RECURSIVE combine_clears_loop_peeks_only(_, _, _)
combine_clears_loop_peeks_only(insts, k, optimised_insts) ==
    IF k > Len(insts) THEN Ok(optimised_insts)
    ELSE IF insts[k].op = "BranchIfZero"
    THEN IF k + 1 > Len(insts) THEN Panic("PanicUnwrap")
         ELSE IF IsUnitIncrAtZero(insts[k + 1])
         THEN IF k + 2 > Len(insts) THEN Panic("PanicUnwrap")
              ELSE IF insts[k + 2].op = "BranchIfNotZero"
              THEN combine_clears_loop_peeks_only(insts, k + 3,
                       Append(optimised_insts, Set(0, 0)))
              ELSE combine_clears_loop_peeks_only(insts, k + 1,
                       optimised_insts \o <<BranchIfZero(0), Incr(insts[k + 1].amount, 0)>>)
         ELSE combine_clears_loop_peeks_only(insts, k + 1,
                  Append(optimised_insts, BranchIfZero(0)))
    ELSE combine_clears_loop_peeks_only(insts, k + 1, Append(optimised_insts, insts[k]))

RECURSIVE combine_clears_loop(_, _, _)
combine_clears_loop(insts, k, optimised_insts) ==
    IF k > Len(insts) THEN Ok(optimised_insts)
    ELSE IF insts[k].op = "BranchIfZero"
    THEN IF k + 1 > Len(insts) THEN Panic("PanicUnwrap")
         ELSE IF IsUnitIncrAtZero(insts[k + 1])
         THEN IF k + 2 > Len(insts) THEN Panic("PanicUnwrap")
              ELSE IF insts[k + 2].op = "BranchIfNotZero"
              THEN combine_clears_loop(insts, k + 3, Append(optimised_insts, Set(0, 0)))
              ELSE combine_clears_loop(insts, k + 2,
                       optimised_insts \o <<BranchIfZero(0), Incr(insts[k + 1].amount, 0)>>)
         ELSE combine_clears_loop(insts, k + 1, Append(optimised_insts, BranchIfZero(0)))
    ELSE combine_clears_loop(insts, k + 1, Append(optimised_insts, insts[k]))

combine_clears(insts) == combine_clears_loop(insts, 1, <<>>)

(***************************************************************************)
(* optimise.rs: group_instructions.                                        *)
(***************************************************************************)
Fused(inst, sum) == [fused |-> TRUE, inst |-> inst, overflow |-> overflows_i8(sum)]

NotFused == [fused |-> FALSE, inst |-> Read, overflow |-> FALSE]

coalesce_fn_no_set_set(prev_inst, curr) ==
    IF prev_inst.op = "Incr" /\ curr.op = "Incr" /\ prev_inst.offset = curr.offset
    THEN Fused(Incr(wrap_i8(prev_inst.amount + curr.amount), curr.offset),
               prev_inst.amount + curr.amount)
    ELSE IF prev_inst.op = "IncrDp" /\ curr.op = "IncrDp"
    THEN Fused(IncrDp(prev_inst.amount + curr.amount), 0)
    ELSE IF prev_inst.op = "Incr" /\ curr.op = "Set" /\ prev_inst.offset = curr.offset
    THEN Fused(Set(curr.amount, curr.offset), 0)
    ELSE IF prev_inst.op = "Set" /\ curr.op = "Incr" /\ prev_inst.offset = curr.offset
    THEN Fused(Set(wrap_i8(prev_inst.amount + curr.amount), curr.offset),
               prev_inst.amount + curr.amount)
    ELSE NotFused

\* The closure given to coalesce: Ok(fused) or Err((prev, curr)).
coalesce_fn(prev_inst, curr) ==
    IF prev_inst.op = "Incr" /\ curr.op = "Incr" /\ prev_inst.offset = curr.offset
    THEN Fused(Incr(wrap_i8(prev_inst.amount + curr.amount), curr.offset),
               prev_inst.amount + curr.amount)
    ELSE IF prev_inst.op = "IncrDp" /\ curr.op = "IncrDp"
    THEN Fused(IncrDp(prev_inst.amount + curr.amount), 0)
    ELSE IF prev_inst.op = "Incr" /\ curr.op = "Set" /\ prev_inst.offset = curr.offset
    THEN Fused(Set(curr.amount, curr.offset), 0)
    ELSE IF prev_inst.op = "Set" /\ curr.op = "Incr" /\ prev_inst.offset = curr.offset
    THEN Fused(Set(wrap_i8(prev_inst.amount + curr.amount), curr.offset),
               prev_inst.amount + curr.amount)
    ELSE IF prev_inst.op = "Set" /\ curr.op = "Set" /\ prev_inst.offset = curr.offset
    THEN Fused(Set(curr.amount, curr.offset), 0)
    ELSE NotFused

\* itertools' coalesce: the held item is fused with the next one, or emitted.
RECURSIVE coalesce_loop(_, _, _, _)
coalesce_loop(insts, k, held, out) ==
    IF k > Len(insts) THEN Ok(Append(out, held))
    ELSE LET r == coalesce_fn(held, insts[k]) IN
         IF r.fused
         THEN IF r.overflow /\ overflow_checks THEN Panic("PanicOverflow")
              ELSE coalesce_loop(insts, k + 1, r.inst, out)
         ELSE coalesce_loop(insts, k + 1, insts[k], Append(out, held))

coalesce(insts) ==
    IF insts = <<>> THEN Ok(<<>>) ELSE coalesce_loop(insts, 2, insts[1], <<>>)

keep_nonzero_incr_only(inst) == ~(inst.op = "Incr" /\ inst.amount = 0)

\* The filter's predicate: drop Incr { amount: 0, .. } and IncrDp { amount: 0 }.
keep_nonzero(inst) ==
    ~((inst.op = "Incr" /\ inst.amount = 0) \/ (inst.op = "IncrDp" /\ inst.amount = 0))

group_instructions(insts) ==
    LET c == coalesce(insts) IN
    IF c.tag = "Ok" THEN Ok(SelectSeq(c.insts, keep_nonzero)) ELSE c

(***************************************************************************)
(* optimise.rs: reorder and reorder_sequence.                              *)
(***************************************************************************)
\* The first loop of reorder_sequence: every Incr and Set with its offset
\* moved by the pointer motion before it, in their original order, and the
\* net motion.
RECURSIVE reorder_shift(_, _, _, _)
reorder_shift(insts, k, current_offset, shifted) ==
    IF k > Len(insts) THEN [shifted |-> shifted, current_offset |-> current_offset]
    ELSE IF insts[k].op = "Incr"
    THEN reorder_shift(insts, k + 1, current_offset,
             Append(shifted, Incr(insts[k].amount, current_offset + insts[k].offset)))
    ELSE IF insts[k].op = "Set"
    THEN reorder_shift(insts, k + 1, current_offset,
             Append(shifted, Set(insts[k].amount, current_offset + insts[k].offset)))
    ELSE reorder_shift(insts, k + 1, current_offset + insts[k].amount, shifted)

\* order_hmap_values over insts_by_offset: the vectors of the map, by
\* increasing key, concatenated; each vector keeps insertion order.
RECURSIVE order_hmap_values(_, _)
order_hmap_values(shifted, offsets) ==
    IF offsets = {} THEN <<>>
    ELSE LET o == CHOOSE x \in offsets : \A y \in offsets : x <= y
             AtOffset(inst) == inst.offset = o
         IN SelectSeq(shifted, AtOffset) \o order_hmap_values(shifted, offsets \ {o})

\* The reordering that always ends with an IncrDp: a mutant.
reorder_sequence_always_moves(insts) ==
    LET r == reorder_shift(insts, 1, 0, <<>>)
        offsets == {r.shifted[k].offset : k \in 1..Len(r.shifted)}
        res == order_hmap_values(r.shifted, offsets)
    IN Append(res, IncrDp(r.current_offset))

reorder_sequence(insts) ==
    LET r == reorder_shift(insts, 1, 0, <<>>)
        offsets == {r.shifted[k].offset : k \in 1..Len(r.shifted)}
        res == order_hmap_values(r.shifted, offsets)
    IN IF r.current_offset # 0
       THEN Append(res, IncrDp(r.current_offset))
       ELSE res

IsReorderable(inst) == inst.op \in {"Incr", "Set", "IncrDp"}

\* The loop of reorder: the instructions cut into the pieces the loop
\* handles, in order: each maximal run pushed to `sequence`, and each other
\* instruction, which flushes the run before it.
RECURSIVE reorder_pieces(_, _, _, _)
reorder_pieces(insts, k, sequence, pieces) ==
    IF k > Len(insts)
    THEN IF sequence # <<>> THEN Append(pieces, [run |-> TRUE, insts |-> sequence])
         ELSE pieces
    ELSE IF IsReorderable(insts[k])
    THEN reorder_pieces(insts, k + 1, Append(sequence, insts[k]), pieces)
    ELSE IF sequence # <<>>
    THEN reorder_pieces(insts, k + 1, <<>>,
             pieces \o <<[run |-> TRUE, insts |-> sequence],
                         [run |-> FALSE, insts |-> <<insts[k]>>]>>)
    ELSE reorder_pieces(insts, k + 1, <<>>,
             Append(pieces, [run |-> FALSE, insts |-> <<insts[k]>>]))

RECURSIVE Concat(_, _)
Concat(seqs, k) == IF k > Len(seqs) THEN <<>> ELSE seqs[k] \o Concat(seqs, k + 1)

\* `result.extend(reorder_sequence(&sequence))` for a run, `result.push(inst)`
\* for any other instruction.
reorder_loop(insts) ==
    LET pieces == reorder_pieces(insts, 1, <<>>, <<>>)
        out == [n \in 1..Len(pieces) |->
                   IF pieces[n].run THEN reorder_sequence(pieces[n].insts)
                   ELSE pieces[n].insts]
    IN Concat(out, 1)

reorder(insts) == Ok(reorder_loop(insts))

(***************************************************************************)
(* optimise.rs: cell_changes, is_multiply_loop, combine_multiply_loops.    *)
(* A HashMap is a function on its keys.                                    *)
(***************************************************************************)
EmptyMap == [k \in {} |-> 0]

MapInsert(m, key, value) ==
    [k \in DOMAIN m \cup {key} |-> IF k = key THEN value ELSE m[k]]

MapGetOr(m, key, default) == IF key \in DOMAIN m THEN m[key] ELSE default

\* Returns the map, or the overflow panic of `current_amount + amount`.
RECURSIVE cell_changes(_, _, _, _)
cell_changes(insts, k, cell_index, changes) ==
    IF k > Len(insts) THEN [tag |-> "Ok", changes |-> changes]
    ELSE IF insts[k].op = "Incr"
    THEN LET key == cell_index + insts[k].offset
             sum == MapGetOr(changes, key, 0) + insts[k].amount
         IN IF overflows_i8(sum) /\ overflow_checks
            THEN [tag |-> "PanicOverflow", changes |-> EmptyMap]
            ELSE cell_changes(insts, k + 1, cell_index, MapInsert(changes, key, wrap_i8(sum)))
    ELSE IF insts[k].op = "IncrDp"
    THEN cell_changes(insts, k + 1, cell_index + insts[k].amount, changes)
    ELSE [tag |-> "PanicUnreachable", changes |-> EmptyMap]

RECURSIVE net_movement(_, _)
net_movement(insts, k) ==
    IF k > Len(insts) THEN 0
    ELSE (IF insts[k].op = "IncrDp" THEN insts[k].amount ELSE 0) + net_movement(insts, k + 1)

\* The check without `changes.len() == 1`: a mutant.
is_multiply_loop_single_cell_too(insts) ==
    IF \E k \in 1..Len(insts) : insts[k].op \notin {"Incr", "IncrDp"}
    THEN [tag |-> "None", changes |-> EmptyMap]
    ELSE IF net_movement(insts, 1) # 0
    THEN [tag |-> "None", changes |-> EmptyMap]
    ELSE LET c == cell_changes(insts, 1, 0, EmptyMap) IN
         IF c.tag # "Ok" THEN c
         ELSE IF MapGetOr(c.changes, 0, 0) # -1 \/ 0 \notin DOMAIN c.changes
         THEN [tag |-> "None", changes |-> EmptyMap]
         ELSE [tag |-> "Some", changes |-> c.changes]

\* Some(changes), None, or the panic of cell_changes.
is_multiply_loop(insts) ==
    IF \E k \in 1..Len(insts) : insts[k].op \notin {"Incr", "IncrDp"}
    THEN [tag |-> "None", changes |-> EmptyMap]
    ELSE IF net_movement(insts, 1) # 0
    THEN [tag |-> "None", changes |-> EmptyMap]
    ELSE LET c == cell_changes(insts, 1, 0, EmptyMap) IN
         IF c.tag # "Ok" THEN c
         ELSE IF MapGetOr(c.changes, 0, 0) # -1 \/ 0 \notin DOMAIN c.changes
         THEN [tag |-> "None", changes |-> EmptyMap]
         ELSE IF Cardinality(DOMAIN c.changes) = 1
         THEN [tag |-> "None", changes |-> EmptyMap]
         ELSE [tag |-> "Some", changes |-> c.changes]

\* Every order in which `changes.iter()` may visit the keys: a HashMap's
\* iteration order is unspecified.
IterOrders(keys) ==
    {p \in [1..Cardinality(keys) -> keys] : \A a, b \in DOMAIN p : a # b => p[a] # p[b]}

MulsOf(changes, order) == [k \in DOMAIN order |-> Mul(changes[order[k]], order[k])]

\* The set of outputs the pass can return, one per iteration order of each
\* rewritten loop's map.  idx is the 0-based index of the iterator.
RECURSIVE combine_multiply_loops_from(_, _, _)
combine_multiply_loops_from(insts, idx, res) ==
    IF idx >= Len(insts) THEN {Ok(res)}
    ELSE IF insts[idx + 1].op = "BranchIfZero"
    THEN LET destination == insts[idx + 1].destination IN
         IF idx + 1 > destination \/ destination > Len(insts)
         THEN {Panic("PanicUnwrap")}
         ELSE LET m == is_multiply_loop(SubSeq(insts, idx + 2, destination)) IN
              IF m.tag = "Some"
              THEN UNION {combine_multiply_loops_from(insts, destination + 1,
                              res \o MulsOf(m.changes, order) \o <<Set(0, 0)>>) :
                          order \in IterOrders(DOMAIN m.changes \ {0})}
              ELSE IF m.tag = "None"
              THEN combine_multiply_loops_from(insts, idx + 1, Append(res, insts[idx + 1]))
              ELSE {Panic(m.tag)}
    ELSE combine_multiply_loops_from(insts, idx + 1, Append(res, insts[idx + 1]))

combine_multiply_loops(insts) == combine_multiply_loops_from(insts, 0, <<>>)

(***************************************************************************)
(* One pass applied to one linked IR.                                      *)
(***************************************************************************)
PassInstructions ==
    {IncrDp(1), IncrDp(-1), Incr(1, 0), Incr(-1, 0), Incr(127, 0), Incr(1, 1),
     Set(0, 0), Set(2, 1), BranchIfZero(0), BranchIfNotZero(0), Write}

\* Inputs longer than the exhaustive bound: the loops and runs the passes
\* are written for.
PassCorpus ==
    {<<BranchIfZero(0), Incr(-1, 0), IncrDp(1), Incr(1, 0), IncrDp(-1), BranchIfNotZero(0)>>,
     <<BranchIfZero(0), Incr(-1, 0), IncrDp(1), Incr(3, 0), IncrDp(1), Incr(1, 0),
       IncrDp(-2), BranchIfNotZero(0)>>,
     <<BranchIfZero(0), Incr(-1, 0), IncrDp(-1), Incr(1, 0), IncrDp(2), Incr(1, 0),
       IncrDp(-1), BranchIfNotZero(0)>>,
     <<Incr(1, 0), IncrDp(1), Incr(2, 0), IncrDp(1), Incr(3, 0)>>,
     <<Incr(1, 0), IncrDp(1), IncrDp(-1), Incr(1, 0), Write>>,
     <<Incr(-128, 0), Incr(-1, 0), Write>>,
     <<BranchIfZero(0), Incr(-1, 0), BranchIfZero(0), Incr(1, 0), BranchIfNotZero(0),
       BranchIfNotZero(0)>>,
     <<BranchIfZero(0), Incr(-1, 0), BranchIfNotZero(0),
       BranchIfZero(0), Incr(-1, 0), IncrDp(1), Incr(1, 0), IncrDp(-1), BranchIfNotZero(0),
       BranchIfZero(0), BranchIfZero(0), Incr(1, 1), Incr(-1, 0), BranchIfNotZero(0),
       BranchIfNotZero(0)>>}

InitPass ==
    /\ pc = "pass_input"
    /\ text = <<>>
    /\ unlinked = <<>>
    /\ link_res = NoResult
    /\ decoded = NoResult
    /\ overflow_checks \in BOOLEAN
    /\ pass = "none"
    /\ pass_mid = <<>>
    /\ pass_out = NoResult
    /\ OptIdle
    /\ RunIdle
    /\ \E u \in SeqsUpTo(PassInstructions, MaxPassLen) \cup PassCorpus :
          /\ link(u).tag = "Ok"
          /\ linked = link(u).insts

ApplyCombineClears ==
    /\ pc = "pass_input"
    /\ pass' = "combine_clears"
    /\ pass_out' = combine_clears(linked)
    /\ pc' = "pass_output"
    /\ UNCHANGED <<text, unlinked, link_res, linked, decoded, overflow_checks, pass_mid, optvars, runvars>>

ApplyGroupInstructions ==
    /\ pc = "pass_input"
    /\ pass' = "group_instructions"
    /\ pass_mid' = coalesce(linked).insts
    /\ pass_out' = group_instructions(linked)
    /\ pc' = "pass_output"
    /\ UNCHANGED <<text, unlinked, link_res, linked, decoded, overflow_checks, optvars, runvars>>

ApplyReorder ==
    /\ pc = "pass_input"
    /\ pass' = "reorder"
    /\ pass_out' = reorder(linked)
    /\ pc' = "pass_output"
    /\ UNCHANGED <<text, unlinked, link_res, linked, decoded, overflow_checks, pass_mid, optvars, runvars>>

ApplyCombineMultiplyLoops ==
    /\ pc = "pass_input"
    /\ pass' = "combine_multiply_loops"
    /\ pass_out' \in combine_multiply_loops(linked)
    /\ pc' = "pass_output"
    /\ UNCHANGED <<text, unlinked, link_res, linked, decoded, overflow_checks, pass_mid, optvars, runvars>>

NextPass ==
    \/ ApplyCombineClears
    \/ ApplyGroupInstructions
    \/ ApplyReorder
    \/ ApplyCombineMultiplyLoops

SpecPass == InitPass /\ [][NextPass]_vars

\* The five fusion rules of group_instructions, as a relation on a pair.
Fusable(a, b) ==
    \/ a.op = "IncrDp" /\ b.op = "IncrDp"
    \/ a.op \in {"Incr", "Set"} /\ b.op \in {"Incr", "Set"} /\ a.offset = b.offset

IsZeroEffect(inst) == inst.op \in {"Incr", "IncrDp"} /\ inst.amount = 0

\* C8 (as claimed): the output of group_instructions holds no Incr 0, no
\* IncrDp 0 and no two adjacent instructions that match a fusion rule.
C8_NoFusablePairLeft ==
    (pc = "pass_output" /\ pass = "group_instructions" /\ pass_out.tag = "Ok") =>
        LET out == pass_out.insts IN
        /\ \A k \in 1..Len(out) : ~IsZeroEffect(out[k])
        /\ \A k \in 1..(Len(out) - 1) : ~Fusable(out[k], out[k + 1])

\* C8 (amended): the output of group_instructions holds no Incr 0 and no
\* IncrDp 0; it is the coalesced sequence with exactly those dropped; and two
\* adjacent instructions of the output match a fusion rule only if a dropped
\* zero-effect instruction stood between them in the coalesced sequence.
C8_FusablePairOnlyAcrossDrop ==
    (pc = "pass_output" /\ pass = "group_instructions" /\ pass_out.tag = "Ok") =>
        LET out == pass_out.insts
            kept == {k \in 1..Len(pass_mid) : ~IsZeroEffect(pass_mid[k])}
            \* the position in pass_mid of the n-th instruction of the output
            At(n) == CHOOSE k \in kept : Cardinality({j \in kept : j <= k}) = n
        IN /\ \A k \in 1..Len(out) : ~IsZeroEffect(out[k])
           /\ Len(out) = Cardinality(kept)
           /\ \A n \in 1..Len(out) : out[n] = pass_mid[At(n)]
           /\ \A k \in 1..(Len(pass_mid) - 1) : ~Fusable(pass_mid[k], pass_mid[k + 1])
           /\ \A n \in 1..(Len(out) - 1) :
                 Fusable(out[n], out[n + 1]) => At(n + 1) > At(n) + 1

C8_Witness ==
    /\ pc = "pass_output"
    /\ pass = "group_instructions"
    /\ pass_out = Ok(<<Incr(1, 0), Incr(1, 0)>>)
    /\ linked = <<Incr(1, 0), IncrDp(1), IncrDp(-1), Incr(1, 0)>>

(***************************************************************************)
(* optimise.rs: Optimisations, optimise_single_pass, optimise.             *)
(***************************************************************************)
MAX_OPT_ITER == 20

Optimisations ==
    {"combine-clears", "group-instructions", "reorder-instructions",
     "combine-multiply-loops"}

\* The set of outputs the pass called `name` can return for `insts`.
pass_outcomes(name, insts) ==
    CASE name = "combine-clears" -> {combine_clears(insts)}
      [] name = "group-instructions" -> {group_instructions(insts)}
      [] name = "reorder-instructions" -> {reorder(insts)}
      [] OTHER -> combine_multiply_loops(insts)

\* `pass(insts).link()?` for every result in rs, when the pass is enabled.
then_pass(rs, enabled, name) ==
    IF name \notin enabled THEN rs
    ELSE UNION {IF r.tag # "Ok" THEN {r}
                ELSE {IF o.tag = "Ok" THEN link(o.insts) ELSE o :
                      o \in pass_outcomes(name, r.insts)} :
                r \in rs}

\* The set of results one single pass over `insts` can return.
optimise_single_pass(insts, enabled) ==
    LET r0 == {link(insts)}
        r1 == then_pass(r0, enabled, "combine-clears")
        r2 == then_pass(r1, enabled, "group-instructions")
        r3 == then_pass(r2, enabled, "reorder-instructions")
    IN then_pass(r3, enabled, "combine-multiply-loops")

converged_inverted(prev_linked, res) == prev_linked # res

\* The comparison of the loop condition: `prev.link()? != result` is false.
converged(prev_linked, res) == prev_linked = res

Rep(x, n) == [k \in 1..n |-> x]

RECURSIVE Nest(_)
Nest(n) ==
    IF n = 0 THEN <<>>
    ELSE <<Incr(1, 0), IncrDp(1)>> \o Nest(n - 1) \o <<IncrDp(-1), Incr(-1, 0)>>

OptInstructions ==
    {IncrDp(1), IncrDp(-1), Incr(1, 0), Incr(-1, 0), BranchIfZero(0),
     BranchIfNotZero(0), Read, Write}

\* Lowered programs longer than the exhaustive bound.
OptCorpus ==
    {Nest(MaxNest),
     Nest(MaxNest - 1),
     <<Incr(127, 0), Incr(1, 0), Write>>,
     Rep(Incr(1, 0), 3) \o <<BranchIfZero(0), Incr(-1, 0), BranchIfNotZero(0)>>,
     Rep(Incr(1, 0), 2) \o <<BranchIfZero(0), Incr(-1, 0), IncrDp(1)>> \o Rep(Incr(1, 0), 3)
         \o <<IncrDp(1), Incr(1, 0), IncrDp(-1), IncrDp(-1), BranchIfNotZero(0)>>,
     <<Incr(1, 0), IncrDp(1), Incr(1, 0), Incr(1, 0), IncrDp(1)>> \o Rep(Incr(1, 0), 3),
     <<Incr(1, 0), IncrDp(1), IncrDp(-1), Incr(1, 0)>>,
     <<BranchIfZero(0), Incr(-1, 0), IncrDp(-1), Incr(1, 0), IncrDp(1), IncrDp(1),
       Incr(1, 0), IncrDp(-1), BranchIfNotZero(0), Write>>}

InitOpt ==
    /\ pc = "optimise"
    /\ text = <<>>
    /\ unlinked \in SeqsUpTo(OptInstructions, MaxOptLen) \cup OptCorpus
    /\ link_res = NoResult
    /\ linked = <<>>
    /\ decoded = NoResult
    /\ overflow_checks \in BOOLEAN
    /\ pass = "none"
    /\ pass_mid = <<>>
    /\ pass_out = NoResult
    /\ opts \in SUBSET Optimisations
    /\ prev = <<>>
    /\ result = <<>>
    /\ counter = 0
    /\ opt_res = NoResult
    /\ RunIdle

\* optimise.rs:50-53: prev = self.clone(); result = single pass over self.
OptimiseFirstPass ==
    /\ pc = "optimise"
    /\ prev' = unlinked
    /\ \E r \in optimise_single_pass(unlinked, opts) :
          IF r.tag = "Ok"
          THEN result' = r.insts /\ pc' = "loop" /\ opt_res' = opt_res
          ELSE result' = result /\ pc' = "returned" /\ opt_res' = r
    /\ counter' = 0
    /\ UNCHANGED <<text, unlinked, link_res, linked, decoded, overflow_checks,
                   pass, pass_mid, pass_out, opts, runvars>>

\* optimise.rs:54-59: the condition holds and the body runs once.
OptimiseLoopBody ==
    /\ pc = "loop"
    /\ link(prev).tag = "Ok"
    /\ ~converged(link(prev).insts, result)
    /\ counter <= MAX_OPT_ITER
    /\ prev' = result
    /\ \E r \in optimise_single_pass(result, opts) :
          IF r.tag = "Ok"
          THEN result' = r.insts /\ pc' = "loop" /\ opt_res' = opt_res
                                 /\ counter' = counter + 1
          ELSE result' = result /\ pc' = "returned" /\ opt_res' = r
                                /\ counter' = counter
    /\ UNCHANGED <<text, unlinked, link_res, linked, decoded, overflow_checks,
                   pass, pass_mid, pass_out, opts, runvars>>

\* optimise.rs:54 and 61: `prev.link()?` fails, or the condition is false
\* and result is returned.
OptimiseReturn ==
    /\ pc = "loop"
    /\ \/ /\ link(prev).tag # "Ok"
          /\ opt_res' = link(prev)
       \/ /\ link(prev).tag = "Ok"
          /\ converged(link(prev).insts, result) \/ ~(counter <= MAX_OPT_ITER)
          /\ opt_res' = Ok(result)
    /\ pc' = "returned"
    /\ UNCHANGED <<text, unlinked, link_res, linked, decoded, overflow_checks,
                   pass, pass_mid, pass_out, opts, prev, result, counter, runvars>>

NextOpt == OptimiseFirstPass \/ OptimiseLoopBody \/ OptimiseReturn

SpecOpt == InitOpt /\ [][NextOpt]_vars

\* C7: for a balanced input, optimise terminates: a call that has not
\* returned can go on, every turn of the loop adds one to the counter, and
\* the counter never passes MAX_OPT_ITER + 1.  An IR it returns is a fixed
\* point of the single pass (every outcome of one more pass over it is that
\* same linked IR) or was returned because the counter passed the cap.
C7_ReturnsFixedPointOrCap ==
    /\ [](link(unlinked).tag = "Ok" =>
            /\ counter <= MAX_OPT_ITER + 1
            /\ pc = "optimise" => optimise_single_pass(unlinked, opts) # {}
            /\ pc = "loop" => optimise_single_pass(result, opts) # {}
            /\ (pc = "returned" /\ opt_res.tag = "Ok") =>
                  \/ optimise_single_pass(opt_res.insts, opts) = {Ok(opt_res.insts)}
                  \/ counter > MAX_OPT_ITER)
    /\ [][(link(unlinked).tag = "Ok" /\ pc = "loop") =>
              \/ pc' = "loop" /\ counter' = counter + 1
              \/ pc' = "returned"]_vars

C7_Witness ==
    /\ pc = "returned"
    /\ opt_res.tag = "Ok"
    /\ counter > MAX_OPT_ITER
    /\ optimise_single_pass(opt_res.insts, opts) # {Ok(opt_res.insts)}

(***************************************************************************)
(* interpret.rs: the interpreter of source bytes.                          *)
(***************************************************************************)
MEM_SIZE == 65536

MaxRunLen == 3
MaxInputLen == 1
MaxSteps == 48

\* An item of the input stream whose read fails with an I/O error.
ReadError == -1

CouldNotReadInput == [tag |-> "CouldNotReadInput", insts |-> <<>>, pos |-> 0]

\* Error::Io, the wrapped std::io::Error.
Io == [tag |-> "Io", insts |-> <<>>, pos |-> 0]

\* BufWriter::flush of the buffer w: it fails when there are bytes to
\* deliver and the output stream rejects them; the bytes then stay in the
\* buffer.
flush_fails(w, fails) == w # <<>> /\ fails

flushed_out(out, w, fails) == IF flush_fails(w, fails) THEN out ELSE out \o w

\* The flush that keeps the delivered bytes in the buffer: a mutant.
flushed_buf_kept(w, fails) == w

flushed_buf(w, fails) == IF flush_fails(w, fails) THEN w ELSE <<>>

\* memory[c] of the [u8; MEM_SIZE] array, kept as its non-zero cells.
mem_get(m, c) == IF c \in DOMAIN m THEN m[c] ELSE 0

mem_set(m, c, v) ==
    [x \in (IF v = 0 THEN DOMAIN m \ {c} ELSE DOMAIN m \cup {c}) |->
        IF x = c THEN v ELSE m[x]]

\* u8::wrapping_add / u8::wrapping_sub
wrapping_add(v, n) == (v + n) % 256

wrapping_sub(v, n) == (v + 256 - n) % 256

\* interpret.rs:57-65
remove_unused_bytes(bytes) ==
    SelectSeq(bytes, LAMBDA b : b \in {ByteGt, ByteLt, BytePlus, ByteMinus,
                                       ByteDot, ByteComma, ByteOpen, ByteClose})

\* interpret.rs:33-47: the walk over the bytes from index idx (0-based);
\* returns the result and the lookup array as it was left.
RECURSIVE precompute_loop(_, _, _, _)
precompute_loop(bytes, idx, bracket_stack, matches) ==
    IF idx >= Len(bytes) THEN
        IF Len(bracket_stack) # 0
        THEN [res |-> MissingClosingBracket(Top(bracket_stack)), matches |-> matches]
        ELSE [res |-> Ok(<<>>), matches |-> matches]
    ELSE IF bytes[idx + 1] = ByteOpen THEN
        precompute_loop(bytes, idx + 1, Append(bracket_stack, idx), matches)
    ELSE IF bytes[idx + 1] = ByteClose THEN
        IF bracket_stack = <<>>
        THEN [res |-> MissingOpeningBracket(idx), matches |-> matches]
        ELSE LET opening_idx == Top(bracket_stack)
             IN precompute_loop(bytes, idx + 1, Pop(bracket_stack),
                    [matches EXCEPT ![opening_idx + 1] = idx,
                                    ![idx + 1] = opening_idx])
    ELSE precompute_loop(bytes, idx + 1, bracket_stack, matches)

\* interpret.rs:30-54
precompute_bracket_matches(bytes, matches) ==
    precompute_loop(bytes, 0, <<>>, matches)

\* 2^64 mod MEM_SIZE, by squaring 2^16 twice: what a wrapped usize
\* subtraction adds before `% MEM_SIZE`.
UsizeModulusModMem ==
    LET x == 65536 % MEM_SIZE
        y == (x * x) % MEM_SIZE
    IN (y * y) % MEM_SIZE

\* interpret.rs:78
dp_right(d) == (d + 1) % MEM_SIZE

\* interpret.rs:81: `(self.dp - 1) % MEM_SIZE` on usize.  The subtraction
\* underflows at dp = 0: a panic with overflow checks, a wrap to usize::MAX
\* without them.
dp_left(d, checks) ==
    IF d >= 1 THEN [panic |-> FALSE, dp |-> (d - 1) % MEM_SIZE]
    ELSE IF checks THEN [panic |-> TRUE, dp |-> d]
    ELSE [panic |-> FALSE, dp |-> (UsizeModulusModMem + d - 1) % MEM_SIZE]

RunCorpus ==
    { <<ByteComma, ByteOpen, ByteDot, ByteComma, ByteClose>>,
      <<BytePlus, ByteOpen, ByteMinus, ByteClose, ByteDot>>,
      <<ByteMinus, ByteOpen, ByteDot, BytePlus, ByteClose>>,
      <<BytePlus, ByteOpen, ByteGt, BytePlus, ByteLt, ByteMinus, ByteClose,
        ByteGt, ByteDot>>,
      <<BytePlus, ByteDot, ByteLt, ByteDot, ByteGt, ByteDot>>,
      <<ByteLt, BytePlus, ByteGt, BytePlus, ByteLt, ByteDot, ByteComma, ByteDot>>,
      <<ByteOpen, ByteOpen, ByteClose, ByteSpace, ByteClose, BytePlus,
        ByteOpen, ByteOpen, ByteMinus, ByteClose, ByteClose, ByteDot>>,
      <<ByteOpen, ByteOpen, ByteClose, ByteClose, BytePlus, BytePlus,
        ByteOpen, ByteMinus, ByteClose>> }

RunInputs == SeqsUpTo({0, 65, ReadError}, MaxInputLen)

\* Interpreter::new, with the bytes of the file and an input stream.
InitRun ==
    /\ pc = "new"
    /\ text \in SeqsUpTo(SourceBytes, MaxRunLen) \cup RunCorpus
    /\ unlinked = <<>>
    /\ link_res = NoResult
    /\ linked = <<>>
    /\ decoded = NoResult
    /\ overflow_checks \in BOOLEAN
    /\ pass = "none"
    /\ pass_mid = <<>>
    /\ pass_out = NoResult
    /\ OptIdle
    /\ ip = 0
    /\ dp = 0
    /\ memory = <<>>
    /\ bracket_matches = [k \in 1..Len(text) |-> 0]
    /\ writer = <<>>
    /\ stdout = <<>>
    /\ stdin \in RunInputs
    /\ run_res = NoResult
    /\ steps = 0
    /\ plain = NoPlain
    /\ stdout_fails \in BOOLEAN

\* What no step of the source interpreter changes.
RunFrame ==
    UNCHANGED <<unlinked, link_res, linked, decoded, overflow_checks, pass,
                pass_mid, pass_out, optvars, plain, stdout_fails>>

\* interpret.rs:68-73: filter the bytes, match the brackets.
InterpretSetup ==
    /\ pc = "new"
    /\ LET bytes == remove_unused_bytes(text)
           r == precompute_bracket_matches(bytes, bracket_matches)
       IN /\ text' = bytes
          /\ bracket_matches' = r.matches
          /\ IF r.res.tag = "Ok"
             THEN pc' = "running" /\ run_res' = run_res
             ELSE pc' = "done" /\ run_res' = r.res
    /\ UNCHANGED <<ip, dp, memory, writer, stdout, stdin, steps>>
    /\ RunFrame

\* The loop condition of interpret.rs:75 and the byte matched at line 76.
Fetches(byte) ==
    /\ pc = "running"
    /\ steps < MaxSteps
    /\ ip < Len(text)
    /\ text[ip + 1] = byte

\* interpret.rs:77-79, 117
StepRight ==
    /\ Fetches(ByteGt)
    /\ dp' = dp_right(dp)
    /\ ip' = ip + 1
    /\ steps' = steps + 1
    /\ UNCHANGED <<pc, text, memory, bracket_matches, writer, stdout, stdin, run_res>>
    /\ RunFrame

\* interpret.rs:80-82, 117.  A panic unwinds through the BufWriter, whose
\* drop writes the buffer out.
StepLeft ==
    /\ Fetches(ByteLt)
    /\ LET r == dp_left(dp, overflow_checks)
       IN IF r.panic
          THEN /\ pc' = "done"
               /\ run_res' = Panic("PanicOverflow")
               /\ stdout' = flushed_out(stdout, writer, stdout_fails)
               /\ writer' = flushed_buf(writer, stdout_fails)
               /\ UNCHANGED <<ip, dp>>
          ELSE /\ dp' = r.dp
               /\ ip' = ip + 1
               /\ UNCHANGED <<pc, run_res, stdout, writer>>
    /\ steps' = steps + 1
    /\ UNCHANGED <<text, memory, bracket_matches, stdin>>
    /\ RunFrame

\* interpret.rs:83-85, 117
StepPlus ==
    /\ Fetches(BytePlus)
    /\ memory' = mem_set(memory, dp, wrapping_add(mem_get(memory, dp), 1))
    /\ ip' = ip + 1
    /\ steps' = steps + 1
    /\ UNCHANGED <<pc, text, dp, bracket_matches, writer, stdout, stdin, run_res>>
    /\ RunFrame

\* interpret.rs:86-88, 117
StepMinus ==
    /\ Fetches(ByteMinus)
    /\ memory' = mem_set(memory, dp, wrapping_sub(mem_get(memory, dp), 1))
    /\ ip' = ip + 1
    /\ steps' = steps + 1
    /\ UNCHANGED <<pc, text, dp, bracket_matches, writer, stdout, stdin, run_res>>
    /\ RunFrame

\* interpret.rs:89-91, 117.  Fewer bytes than the buffer's capacity are
\* written within MaxSteps, so the write only appends to the buffer.
StepDot ==
    /\ Fetches(ByteDot)
    /\ writer' = Append(writer, mem_get(memory, dp))
    /\ ip' = ip + 1
    /\ steps' = steps + 1
    /\ UNCHANGED <<pc, text, dp, memory, bracket_matches, stdout, stdin, run_res>>
    /\ RunFrame

\* interpret.rs:92-93: `,` flushes the buffer, then blocks on the input
\* stream; a failed flush returns Error::Io before the read.
StepComma ==
    /\ Fetches(ByteComma)
    /\ stdout' = flushed_out(stdout, writer, stdout_fails)
    /\ writer' = flushed_buf(writer, stdout_fails)
    /\ IF flush_fails(writer, stdout_fails)
       THEN pc' = "done" /\ run_res' = Io
       ELSE pc' = "reading" /\ run_res' = run_res
    /\ steps' = steps + 1
    /\ UNCHANGED <<text, ip, dp, memory, bracket_matches, stdin>>
    /\ RunFrame

\* The read that stores the byte even when there is none: a mutant.
read_input_zero_at_end(input) ==
    IF input = <<>> THEN <<0>>
    ELSE IF Head(input) = ReadError THEN <<>> ELSE <<Head(input)>>

\* interpret.rs:94: `std::io::stdin().bytes().next().and_then(|res| res.ok())`:
\* the byte read, or nothing at end of input and on a failed read.
read_input(input) ==
    IF input = <<>> \/ Head(input) = ReadError THEN <<>> ELSE <<Head(input)>>

\* interpret.rs:94-101, 117: the read returns.
ReadInput ==
    /\ pc = "reading"
    /\ stdin' = IF stdin = <<>> THEN stdin ELSE Tail(stdin)
    /\ IF read_input(stdin) # <<>>
       THEN /\ memory' = mem_set(memory, dp, read_input(stdin)[1])
            /\ ip' = ip + 1
            /\ pc' = "running"
            /\ run_res' = run_res
       ELSE /\ pc' = "done"
            /\ run_res' = CouldNotReadInput
            /\ UNCHANGED <<memory, ip>>
    /\ UNCHANGED <<text, dp, bracket_matches, writer, stdout, steps>>
    /\ RunFrame

\* A taken `[` that is followed by the post-increment: a mutant.
StepOpen_then_increments ==
    /\ Fetches(ByteOpen)
    /\ ip' = IF mem_get(memory, dp) = 0 THEN bracket_matches[ip + 1] + 1 ELSE ip + 1
    /\ steps' = steps + 1
    /\ UNCHANGED <<pc, text, dp, memory, bracket_matches, writer, stdout, stdin, run_res>>
    /\ RunFrame

\* interpret.rs:102-107, 117
StepOpen ==
    /\ Fetches(ByteOpen)
    /\ ip' = IF mem_get(memory, dp) = 0 THEN bracket_matches[ip + 1] ELSE ip + 1
    /\ steps' = steps + 1
    /\ UNCHANGED <<pc, text, dp, memory, bracket_matches, writer, stdout, stdin, run_res>>
    /\ RunFrame

\* interpret.rs:108-113, 117
StepClose ==
    /\ Fetches(ByteClose)
    /\ ip' = IF mem_get(memory, dp) # 0 THEN bracket_matches[ip + 1] ELSE ip + 1
    /\ steps' = steps + 1
    /\ UNCHANGED <<pc, text, dp, memory, bracket_matches, writer, stdout, stdin, run_res>>
    /\ RunFrame

\* interpret.rs:75, 120-122: the loop ends, the buffer is flushed; a failed
\* flush returns Error::Io.
InterpretReturn ==
    /\ pc = "running"
    /\ ip >= Len(text)
    /\ stdout' = flushed_out(stdout, writer, stdout_fails)
    /\ writer' = flushed_buf(writer, stdout_fails)
    /\ run_res' = IF flush_fails(writer, stdout_fails) THEN Io ELSE Ok(<<>>)
    /\ pc' = "done"
    /\ UNCHANGED <<text, ip, dp, memory, bracket_matches, stdin, steps>>
    /\ RunFrame

NextRun ==
    \/ InterpretSetup
    \/ StepRight
    \/ StepLeft
    \/ StepPlus
    \/ StepMinus
    \/ StepDot
    \/ StepComma
    \/ ReadInput
    \/ StepOpen
    \/ StepClose
    \/ InterpretReturn

SpecRun == InitRun /\ [][NextRun]_vars

\* C10: the data pointer wraps on both ends of the ring: it is always in
\* 0..N-1, a `<` executed at dp = 0 completes normally and leaves dp = N-1
\* on every build, and a `>` executed at dp = N-1 leaves dp = 0.
C10_PointerWrapsBothEnds ==
    /\ [](dp \in 0..(MEM_SIZE - 1))
    /\ [][(Fetches(ByteLt) /\ dp = 0) =>
              (pc' = "running" /\ run_res' = NoResult /\ dp' = MEM_SIZE - 1)]_vars
    /\ [][(Fetches(ByteGt) /\ dp = MEM_SIZE - 1) =>
              (pc' = "running" /\ dp' = 0)]_vars

(***************************************************************************)
(* Optimisation equivalence: optimise (optimise.rs), then the run of the   *)
(* unoptimised and of the optimised linked IR on the same input.  The      *)
(* repository holds no interpreter of this IR; the Exec actions follow the *)
(* per-op semantics of the specification's section 4.5, on the ring of     *)
(* MEM_SIZE cells.                                                         *)
(***************************************************************************)
MaxEquivLen == 3

\* (dp + offset) mod N, with the signed value of the offset.
cell_at(d, o) == (d + o) % MEM_SIZE

\* Unlinked IR longer than the exhaustive bound.  The first is what
\* `+`, MEM_SIZE times `<`, `[-].` lowers to, its run of `<` written as the
\* one IncrDp that grouping makes of it; the second is `,[.,]`.
EquivCorpus ==
    OptCorpus \cup
    {<<Incr(1, 0), IncrDp(-MEM_SIZE), BranchIfZero(0), Incr(-1, 0),
       BranchIfNotZero(0), Write>>,
     <<Read, BranchIfZero(0), Write, Read, BranchIfNotZero(0)>>,
     <<Read, BranchIfZero(0), Incr(-1, 0), IncrDp(1), Incr(1, 0), Incr(1, 0),
       IncrDp(-1), BranchIfNotZero(0), IncrDp(1), Write>>}

EquivInputs == SeqsUpTo({0, 65}, MaxInputLen)

InitEquiv ==
    /\ pc = "optimise"
    /\ text = <<>>
    /\ unlinked \in SeqsUpTo(OptInstructions, MaxEquivLen) \cup EquivCorpus
    /\ link_res = NoResult
    /\ linked = <<>>
    /\ decoded = NoResult
    /\ overflow_checks \in BOOLEAN
    /\ pass = "none"
    /\ pass_mid = <<>>
    /\ pass_out = NoResult
    /\ opts \in SUBSET Optimisations
    /\ prev = <<>>
    /\ result = <<>>
    /\ counter = 0
    /\ opt_res = NoResult
    /\ ip = 0
    /\ dp = 0
    /\ memory = <<>>
    /\ bracket_matches = <<>>
    /\ writer = <<>>
    /\ stdout = <<>>
    /\ stdin \in EquivInputs
    /\ run_res = NoResult
    /\ steps = 0
    /\ plain = NoPlain
    /\ stdout_fails = FALSE

\* What no step of a run of linked IR changes.
ExecFrame ==
    UNCHANGED <<text, unlinked, link_res, linked, decoded, overflow_checks,
                pass, pass_mid, pass_out, optvars, bracket_matches, plain,
                stdout_fails>>

\* run(link(lower(P))): the unoptimised program is loaded.
StartPlain ==
    /\ pc = "returned"
    /\ link(unlinked).tag = "Ok"
    /\ linked' = link(unlinked).insts
    /\ plain' = [input |-> stdin, out |-> <<>>, tag |-> "None"]
    /\ pc' = "plain"
    /\ UNCHANGED <<text, unlinked, link_res, decoded, overflow_checks, pass,
                   pass_mid, pass_out, optvars, ip, dp, memory,
                   bracket_matches, writer, stdout, stdin, run_res, steps,
                   stdout_fails>>

\* run(optimise(lower(P))): the unoptimised run is kept and the optimised
\* program is loaded on a fresh tape with the same input; when optimise
\* panicked there is no program and the run ends with that panic.
StartOptimised ==
    /\ pc = "plain"
    /\ run_res # NoResult \/ steps >= MaxSteps
    /\ plain' = [input |-> plain.input, out |-> stdout, tag |-> run_res.tag]
    /\ pc' = "optimised"
    /\ linked' = opt_res.insts
    /\ run_res' = IF opt_res.tag = "Ok" THEN NoResult ELSE opt_res
    /\ stdin' = plain.input
    /\ ip' = 0
    /\ dp' = 0
    /\ memory' = <<>>
    /\ writer' = <<>>
    /\ stdout' = <<>>
    /\ steps' = 0
    /\ UNCHANGED <<text, unlinked, link_res, decoded, overflow_checks, pass,
                   pass_mid, pass_out, optvars, bracket_matches, stdout_fails>>

\* The instruction at ip is `op` and the run goes on.
Executes(op) ==
    /\ pc \in {"plain", "optimised"}
    /\ run_res = NoResult
    /\ steps < MaxSteps
    /\ ip < Len(linked)
    /\ linked[ip + 1].op = op

\* IncrDp{a}: dp <- (dp + a) mod N.
ExecIncrDp ==
    /\ Executes("IncrDp")
    /\ dp' = cell_at(dp, linked[ip + 1].amount)
    /\ ip' = ip + 1
    /\ steps' = steps + 1
    /\ UNCHANGED <<pc, memory, writer, stdout, stdin, run_res>>
    /\ ExecFrame

\* Incr{a, o}: tape[(dp+o) mod N] += a.
ExecIncr ==
    /\ Executes("Incr")
    /\ LET c == cell_at(dp, linked[ip + 1].offset)
       IN memory' = mem_set(memory, c,
                        (mem_get(memory, c) + linked[ip + 1].amount) % 256)
    /\ ip' = ip + 1
    /\ steps' = steps + 1
    /\ UNCHANGED <<pc, dp, writer, stdout, stdin, run_res>>
    /\ ExecFrame

\* Set{a, o}: tape[(dp+o) mod N] = a.
ExecSet ==
    /\ Executes("Set")
    /\ memory' = mem_set(memory, cell_at(dp, linked[ip + 1].offset),
                         linked[ip + 1].amount % 256)
    /\ ip' = ip + 1
    /\ steps' = steps + 1
    /\ UNCHANGED <<pc, dp, writer, stdout, stdin, run_res>>
    /\ ExecFrame

\* Mul{a, o}: tape[(dp+o) mod N] += tape[dp] * a.
ExecMul ==
    /\ Executes("Mul")
    /\ LET c == cell_at(dp, linked[ip + 1].offset)
       IN memory' = mem_set(memory, c,
                        (mem_get(memory, c)
                            + mem_get(memory, dp) * linked[ip + 1].amount) % 256)
    /\ ip' = ip + 1
    /\ steps' = steps + 1
    /\ UNCHANGED <<pc, dp, writer, stdout, stdin, run_res>>
    /\ ExecFrame

\* BranchIfZero{d}: if tape[dp] == 0, ip <- d without post-increment.
ExecBranchIfZero ==
    /\ Executes("BranchIfZero")
    /\ ip' = IF mem_get(memory, dp) = 0 THEN linked[ip + 1].destination ELSE ip + 1
    /\ steps' = steps + 1
    /\ UNCHANGED <<pc, dp, memory, writer, stdout, stdin, run_res>>
    /\ ExecFrame

\* BranchIfNotZero{d}: if tape[dp] != 0, ip <- d without post-increment.
ExecBranchIfNotZero ==
    /\ Executes("BranchIfNotZero")
    /\ ip' = IF mem_get(memory, dp) # 0 THEN linked[ip + 1].destination ELSE ip + 1
    /\ steps' = steps + 1
    /\ UNCHANGED <<pc, dp, memory, writer, stdout, stdin, run_res>>
    /\ ExecFrame

\* Read: flush output; read one byte; at end of input fail.
ExecRead ==
    /\ Executes("Read")
    /\ stdout' = stdout \o writer
    /\ writer' = <<>>
    /\ IF stdin # <<>>
       THEN /\ memory' = mem_set(memory, dp, Head(stdin))
            /\ stdin' = Tail(stdin)
            /\ ip' = ip + 1
            /\ run_res' = run_res
       ELSE /\ run_res' = CouldNotReadInput
            /\ UNCHANGED <<memory, stdin, ip>>
    /\ steps' = steps + 1
    /\ UNCHANGED <<pc, dp>>
    /\ ExecFrame

\* Write: write one byte to output.
ExecWrite ==
    /\ Executes("Write")
    /\ writer' = Append(writer, mem_get(memory, dp))
    /\ ip' = ip + 1
    /\ steps' = steps + 1
    /\ UNCHANGED <<pc, dp, memory, stdout, stdin, run_res>>
    /\ ExecFrame

\* Termination: ip >= |program|; output is flushed.
ExecHalt ==
    /\ pc \in {"plain", "optimised"}
    /\ run_res = NoResult
    /\ ip >= Len(linked)
    /\ stdout' = stdout \o writer
    /\ writer' = <<>>
    /\ run_res' = Ok(<<>>)
    /\ UNCHANGED <<pc, ip, dp, memory, stdin, steps>>
    /\ ExecFrame

NextEquiv ==
    \/ OptimiseFirstPass
    \/ OptimiseLoopBody
    \/ OptimiseReturn
    \/ StartPlain
    \/ StartOptimised
    \/ ExecIncrDp
    \/ ExecIncr
    \/ ExecSet
    \/ ExecMul
    \/ ExecBranchIfZero
    \/ ExecBranchIfNotZero
    \/ ExecRead
    \/ ExecWrite
    \/ ExecHalt

SpecEquiv == InitEquiv /\ [][NextEquiv]_vars

\* The unoptimised run halted, and the run of optimise's result is over.
BothRunsOver ==
    /\ pc = "optimised"
    /\ plain.tag \in {"Ok", "CouldNotReadInput"}
    /\ run_res # NoResult

\* C1: for every program, input and set of enabled passes, when the
\* unoptimised run halts, the run of the optimised program halts too and
\* has delivered the same output byte stream.
C1_OptimisedRunSameOutput ==
    BothRunsOver =>
        /\ run_res.tag \in {"Ok", "CouldNotReadInput"}
        /\ stdout = plain.out

\* Every byte written so far, delivered or still buffered.
Written == stdout \o writer

\* C11: every byte a `.` wrote is delivered before the interpreter blocks
\* on a read and before it returns: no byte is buffered while it is
\* blocked in the read or after it returned Ok or CouldNotReadInput, a `.`
\* adds exactly its byte to the bytes written, and no other step of the run
\* adds, drops or reorders a written byte.
C11_WrittenBytesDelivered ==
    /\ [](pc = "reading" => writer = <<>>)
    /\ []((pc = "done" /\ run_res.tag \in {"Ok", "CouldNotReadInput"})
             => writer = <<>>)
    /\ [][Fetches(ByteDot) =>
              (stdout' \o writer') = Append(Written, mem_get(memory, dp))]_vars
    /\ [][(pc \in {"running", "reading"} /\ ~Fetches(ByteDot)) =>
              (stdout' \o writer') = Written]_vars

C11_Witness ==
    /\ pc = "done"
    /\ run_res.tag = "CouldNotReadInput"
    /\ stdout # <<>>
    /\ writer = <<>>

\* C12: a read at end of input ends the run with CouldNotReadInput, leaves
\* the current cell (and the whole tape) as it was and lets no later
\* instruction execute; a read with a byte available consumes exactly that
\* byte and stores it in the current cell.
C12_ReadAtEndOfInputFails ==
    /\ [][(pc = "reading" /\ stdin = <<>>) =>
              /\ pc' = "done"
              /\ run_res' = CouldNotReadInput
              /\ memory' = memory
              /\ ip' = ip /\ dp' = dp
              /\ stdin' = <<>>]_vars
    /\ [][(pc = "reading" /\ stdin # <<>> /\ Head(stdin) # ReadError) =>
              /\ pc' = "running"
              /\ stdin' = Tail(stdin)
              /\ memory' = mem_set(memory, dp, Head(stdin))
              /\ \A c \in (DOMAIN memory \cup DOMAIN memory') \ {dp} :
                    mem_get(memory', c) = mem_get(memory, c)]_vars
    /\ [][pc # "done"]_vars

C12_Witness ==
    /\ pc = "done"
    /\ run_res = CouldNotReadInput
    /\ stdin = <<>>
    /\ mem_get(memory, dp) # 0
    /\ ip < Len(text) - 1

\* C13: every I/O failure the interpreter meets is returned as Error::Io:
\* a failed flush of the output and a failed read of the input stream both
\* end the run with Io, never with CouldNotReadInput or with no error.
C13_IoFailureIsReturnedAsIo ==
    /\ [][(pc = "running" /\ (Fetches(ByteComma) \/ ip >= Len(text))
              /\ flush_fails(writer, stdout_fails)) =>
              (pc' = "done" /\ run_res' = Io)]_vars
    /\ [][(pc = "reading" /\ stdin # <<>> /\ Head(stdin) = ReadError) =>
              (pc' = "done" /\ run_res' = Io)]_vars

\* C14: optimise fails exactly when linking its input fails, and then with
\* the error link gives for the input; on an input that links it returns
\* an IR, whatever the enabled passes and the amounts being fused.
C14_OptimiseFailsOnlyAsLink ==
    pc = "returned" =>
        IF link(unlinked).tag = "Ok"
        THEN opt_res.tag = "Ok" /\ link(opt_res.insts) = Ok(opt_res.insts)
        ELSE opt_res = link(unlinked)

(***************************************************************************)
(* The multiply-loop conditions, stated on the loop body itself.           *)
(***************************************************************************)
RECURSIVE SumSeq(_)
SumSeq(ns) == IF ns = <<>> THEN 0 ELSE Head(ns) + SumSeq(Tail(ns))

\* The pointer displacement of the first n instructions of body.
Displacement(body, n) ==
    SumSeq([k \in 1..n |-> IF body[k].op = "IncrDp" THEN body[k].amount ELSE 0])

\* The offset, from the loop's cell, that instruction k of body writes to.
Target(body, k) == Displacement(body, k - 1) + body[k].offset

WrittenOffsets(body) ==
    {Target(body, k) : k \in {j \in 1..Len(body) : body[j].op = "Incr"}}

\* The i8 delta the body adds at offset c.
DeltaAt(body, c) ==
    wrap_i8(SumSeq([k \in 1..Len(body) |->
                IF body[k].op = "Incr" /\ Target(body, k) = c
                THEN body[k].amount ELSE 0]))

QualifiesAsMultiplyLoop(body) ==
    /\ \A k \in 1..Len(body) : body[k].op \in {"Incr", "IncrDp"}
    /\ Displacement(body, Len(body)) = 0
    /\ 0 \in WrittenOffsets(body)
    /\ DeltaAt(body, 0) = -1
    /\ WrittenOffsets(body) \ {0} # {}

\* The body of the loop opened at position i (1-based) of linked IR.
BodyOf(insts, i) == SubSeq(insts, i + 1, insts[i].destination)

Loops(insts) == {i \in 1..Len(insts) : insts[i].op = "BranchIfZero"}

QualifyingLoops(insts) ==
    {i \in Loops(insts) : QualifiesAsMultiplyLoop(BodyOf(insts, i))}

\* The qualifying loop that position k of insts lies in, if any.
CoveringLoop(insts, k) ==
    {i \in QualifyingLoops(insts) : i <= k /\ k <= insts[i].destination + 1}

\* How many instructions of the output stand for position k of the input.
EmittedFor(insts, k) ==
    IF k \in QualifyingLoops(insts)
    THEN Cardinality(WrittenOffsets(BodyOf(insts, k)) \ {0}) + 1
    ELSE IF CoveringLoop(insts, k) # {} THEN 0 ELSE 1

\* Where in the output the instructions for position k begin (0-based).
EmittedBefore(insts, k) ==
    SumSeq([j \in 1..(k - 1) |-> EmittedFor(insts, j)])

\* C15: combine_multiply_loops rewrites exactly the loops whose body holds
\* only Incr and IncrDp, has net displacement zero, has delta -1 at offset
\* 0 and writes to an offset other than 0: each such loop gives way to one
\* Mul per other offset and a Set{0,0}, and every instruction outside such
\* a loop, the brackets and bodies of all other loops included, is emitted
\* unchanged and in order.
C15_RewritesExactlyQualifyingLoops ==
    (pc = "pass_output" /\ pass = "combine_multiply_loops" /\ pass_out.tag = "Ok") =>
        LET out == pass_out.insts IN
        /\ Len(out) = EmittedBefore(linked, Len(linked) + 1)
        /\ \A k \in 1..Len(linked) :
              LET at == EmittedBefore(linked, k)
                  n == EmittedFor(linked, k)
              IN IF k \in QualifyingLoops(linked)
                 THEN /\ {out[j] : j \in (at + 1)..(at + n - 1)} =
                            {Mul(DeltaAt(BodyOf(linked, k), o), o) :
                                 o \in WrittenOffsets(BodyOf(linked, k)) \ {0}}
                      /\ out[at + n] = Set(0, 0)
                 ELSE n = 1 => out[at + 1] = linked[k]

C15_Witness ==
    /\ pc = "pass_output"
    /\ pass = "combine_multiply_loops"
    /\ pass_out.tag = "Ok"
    /\ QualifyingLoops(linked) # {}
    /\ \E i \in Loops(linked) \ QualifyingLoops(linked) :
          /\ CoveringLoop(linked, i) = {}
          /\ \A k \in 1..Len(BodyOf(linked, i)) :
                BodyOf(linked, i)[k].op \in {"Incr", "IncrDp"}

\* C16: each qualifying loop is replaced by one Mul{deltas[k], k} per
\* offset k other than 0, in ascending order of k, followed at once by
\* Set{0,0}.
C16_MulsInAscendingOffsetOrder ==
    (pc = "pass_output" /\ pass = "combine_multiply_loops" /\ pass_out.tag = "Ok") =>
        LET out == pass_out.insts IN
        \A k \in QualifyingLoops(linked) :
            LET at == EmittedBefore(linked, k)
                n == EmittedFor(linked, k)
            IN /\ \A j \in (at + 1)..(at + n - 1) :
                     /\ out[j].op = "Mul"
                     /\ out[j].offset # 0
                     /\ out[j].amount = DeltaAt(BodyOf(linked, k), out[j].offset)
               /\ \A j \in (at + 1)..(at + n - 2) : out[j].offset < out[j + 1].offset
               /\ out[at + n] = Set(0, 0)

(***************************************************************************)
(* The runs of a linked IR, stated by position.                            *)
(***************************************************************************)
InRun(insts, k) == insts[k].op \in {"Incr", "Set", "IncrDp"}

\* The first and the last position of the maximal run that position k,
\* itself in a run, lies in.
RECURSIVE RunFirst(_, _)
RunFirst(insts, k) ==
    IF k > 1 /\ InRun(insts, k - 1) THEN RunFirst(insts, k - 1) ELSE k

RECURSIVE RunLast(_, _)
RunLast(insts, k) ==
    IF k < Len(insts) /\ InRun(insts, k + 1) THEN RunLast(insts, k + 1) ELSE k

RunOf(insts, k) == RunFirst(insts, k)..RunLast(insts, k)

\* The Incr and Set instructions of the run of k.
RunItems(insts, k) == {j \in RunOf(insts, k) : insts[j].op \in {"Incr", "Set"}}

\* The offset of instruction k from the pointer at the start of its run.
AbsOffset(insts, k) ==
    LET first == RunFirst(insts, k)
    IN Displacement(SubSeq(insts, first, k - 1), k - first) + insts[k].offset

RunNet(insts, k) ==
    LET first == RunFirst(insts, k)
        last == RunLast(insts, k)
    IN Displacement(SubSeq(insts, first, last), last - first + 1)

\* The place of item k among the items of its run: by offset, then by
\* original position.
RankInRun(insts, k) ==
    Cardinality({j \in RunItems(insts, k) :
                    \/ AbsOffset(insts, j) < AbsOffset(insts, k)
                    \/ AbsOffset(insts, j) = AbsOffset(insts, k) /\ j <= k})

\* How many instructions reorder emits on account of position k: one per
\* Incr, Set and barrier, and the run's IncrDp counted at its last position.
ReorderEmits(insts, k) ==
    (IF insts[k].op = "IncrDp" THEN 0 ELSE 1)
    + (IF InRun(insts, k) /\ k = RunLast(insts, k) /\ RunNet(insts, k) # 0
       THEN 1 ELSE 0)

ReorderEmitsBefore(insts, k) ==
    SumSeq([j \in 1..(k - 1) |-> ReorderEmits(insts, j)])

\* C17: reorder emits every barrier unchanged and in place, and rewrites
\* each maximal run of Incr, Set and IncrDp into its Incr/Set instructions
\* with the offset from the run's start, by increasing offset and in
\* original order within one offset, followed by one IncrDp{net} exactly
\* when the net displacement is not zero.
C17_ReorderRewritesRuns ==
    (pc = "pass_output" /\ pass = "reorder") =>
        /\ pass_out.tag = "Ok"
        /\ LET out == pass_out.insts IN
           /\ Len(out) = ReorderEmitsBefore(linked, Len(linked) + 1)
           /\ \A k \in 1..Len(linked) :
                 LET base == ReorderEmitsBefore(linked, IF InRun(linked, k)
                                                        THEN RunFirst(linked, k) ELSE k)
                 IN IF ~InRun(linked, k)
                    THEN out[base + 1] = linked[k]
                    ELSE /\ linked[k].op \in {"Incr", "Set"} =>
                               out[base + RankInRun(linked, k)] =
                                   [linked[k] EXCEPT !.offset = AbsOffset(linked, k)]
                         /\ (k = RunLast(linked, k) /\ RunNet(linked, k) # 0) =>
                               out[base + Cardinality(RunItems(linked, k)) + 1] =
                                   IncrDp(RunNet(linked, k))

C17_Witness ==
    /\ pc = "pass_output"
    /\ pass = "reorder"
    /\ pass_out.tag = "Ok"
    /\ \E k \in 1..Len(linked) :
          /\ ~InRun(linked, k)
          /\ k > 1 /\ InRun(linked, k - 1) /\ RunNet(linked, k - 1) = 0
          /\ \E i, j \in RunItems(linked, k - 1) :
                i < j /\ AbsOffset(linked, i) > AbsOffset(linked, j)

(***************************************************************************)
(* The clear loops of a linked IR, stated by position.                     *)
(***************************************************************************)
\* Positions k, k+1, k+2 hold `[`, Incr{+1 or -1, 0}, `]`.
ClearAt(insts, k) ==
    /\ k >= 1 /\ k + 2 <= Len(insts)
    /\ insts[k].op = "BranchIfZero"
    /\ insts[k + 1] \in {Incr(1, 0), Incr(-1, 0)}
    /\ insts[k + 2].op = "BranchIfNotZero"

\* Positions k, k+1 hold `[`, Incr{+1 or -1, 0} and k+2 is not a `]`.
PartialClearAt(insts, k) ==
    /\ k >= 1 /\ k + 2 <= Len(insts)
    /\ insts[k].op = "BranchIfZero"
    /\ insts[k + 1] \in {Incr(1, 0), Incr(-1, 0)}
    /\ insts[k + 2].op # "BranchIfNotZero"

ClearEmits(insts, k) ==
    IF ClearAt(insts, k) THEN 1
    ELSE IF ClearAt(insts, k - 1) \/ ClearAt(insts, k - 2) THEN 0
    ELSE 1

ClearEmitsBefore(insts, k) ==
    SumSeq([j \in 1..(k - 1) |-> ClearEmits(insts, j)])

\* C18: combine_clears puts one Set{0,0} in place of every `[`,
\* Incr{+1 or -1, 0}, `]` and emits every other instruction once, in
\* order and as it was (an opening branch as the unlinked BranchIfZero),
\* the `[` and the Incr of a partial match included.
C18_ClearLoopsBecomeSet ==
    (pc = "pass_output" /\ pass = "combine_clears") =>
        /\ pass_out.tag = "Ok"
        /\ LET out == pass_out.insts IN
           /\ Len(out) = ClearEmitsBefore(linked, Len(linked) + 1)
           /\ \A k \in 1..Len(linked) :
                 LET at == ClearEmitsBefore(linked, k) + 1
                 IN IF ClearAt(linked, k) THEN out[at] = Set(0, 0)
                    ELSE IF ClearEmits(linked, k) = 0 THEN TRUE
                    ELSE IF linked[k].op = "BranchIfZero" THEN out[at] = BranchIfZero(0)
                    ELSE out[at] = linked[k]

C18_Witness ==
    /\ pc = "pass_output"
    /\ pass = "combine_clears"
    /\ pass_out.tag = "Ok"
    /\ \E k \in 1..Len(linked) : ClearAt(linked, k) /\ linked[k + 1].amount = 1
    /\ \E k \in 1..Len(linked) : PartialClearAt(linked, k)

(***************************************************************************)
(* The 8-bit sum of the fusions.                                           *)
(***************************************************************************)
\* Two instructions at one offset that group_instructions adds up.
IsAddedPair(a, b) ==
    /\ a.op \in {"Incr", "Set"}
    /\ b.op = "Incr"
    /\ a.offset = b.offset

\* C19: the amount of a fused Incr/Incr or Set/Incr pair, and the delta
\* cell_changes accumulates for a cell, is the 8-bit wrapping sum of the
\* amounts, and neither pass aborts on an overflow of that sum.
C19_FusionWrapsAndNeverAborts ==
    /\ (pc = "pass_output" /\ pass \in {"group_instructions", "combine_multiply_loops"}) =>
           pass_out.tag # "PanicOverflow"
    /\ (pc = "pass_output" /\ pass = "group_instructions" /\ Len(linked) = 2
            /\ IsAddedPair(linked[1], linked[2])) =>
           pass_out = Ok(SelectSeq(
               <<[linked[1] EXCEPT !.amount = wrap_i8(linked[1].amount + linked[2].amount)]>>,
               keep_nonzero))

\* The same for cell_changes alone.
C19_CellChangesNeverAborts ==
    (pc = "pass_output" /\ pass = "combine_multiply_loops") => pass_out.tag # "PanicOverflow"

\* The wrapping half of C19: without overflow checks the sums wrap.
C19_WrapsWithoutOverflowChecks == overflow_checks \/ C19_FusionWrapsAndNeverAborts

(***************************************************************************)
(* Bracket matching by nesting depth, and the instruction pointer.         *)
(***************************************************************************)
\* `[` minus `]` among t[i..j].
Depth(t, i, j) ==
    SumSeq([k \in 1..(j - i + 1) |->
               IF t[i + k - 1] = ByteOpen THEN 1
               ELSE IF t[i + k - 1] = ByteClose THEN -1 ELSE 0])

\* The `]` that closes the `[` at position i: the first one where the depth
\* is back to zero.
MatchingClose(t, i) ==
    CHOOSE j \in (i + 1)..Len(t) :
        /\ t[j] = ByteClose
        /\ Depth(t, i, j) = 0
        /\ \A m \in i..(j - 1) : Depth(t, i, m) > 0

MatchingOpen(t, j) ==
    CHOOSE i \in 1..(j - 1) : t[i] = ByteOpen /\ MatchingClose(t, i) = j

\* The interpreter is at the instruction `byte`.
AtByte(byte) == pc = "running" /\ ip < Len(text) /\ text[ip + 1] = byte

TakenBranch ==
    \/ AtByte(ByteOpen) /\ mem_get(memory, dp) = 0
    \/ AtByte(ByteClose) /\ mem_get(memory, dp) # 0

BranchJumps ==
    /\ [][(AtByte(ByteOpen) /\ mem_get(memory, dp) = 0) =>
              ip' = MatchingClose(text, ip + 1) - 1]_vars
    /\ [][(AtByte(ByteClose) /\ mem_get(memory, dp) # 0) =>
              ip' = MatchingOpen(text, ip + 1) - 1]_vars
    /\ [][(AtByte(ByteOpen) \/ AtByte(ByteClose)) =>
              (dp' = dp /\ memory' = memory /\ pc' = "running")]_vars

AllDestinationsZero(insts) == \A i \in 1..Len(insts) : insts[i].destination = 0

\* The output of from_text.
FromTextDestinationsZero == AllDestinationsZero(unlinked)

\* The output of a pass.
PassOutputDestinationsZero ==
    (pc = "pass_output" /\ pass_out.tag = "Ok") => AllDestinationsZero(pass_out.insts)

\* The value `prev` of the convergence loop.
PrevDestinationsZero == AllDestinationsZero(prev)

\* C21: every unlinked IR has all its destination fields equal to zero: the
\* output of from_text, the output of each of the four passes and the
\* `prev` that optimise rebuilds from the previous linked result.
C21_UnlinkedDestinationsZero ==
    /\ FromTextDestinationsZero
    /\ PassOutputDestinationsZero
    /\ PrevDestinationsZero

\* What of C21 holds for the passes: combine_clears resets the destination
\* of every `[` it emits.
C21_CombineClearsResetsOpeningBranches ==
    (pc = "pass_output" /\ pass = "combine_clears" /\ pass_out.tag = "Ok") =>
        \A i \in 1..Len(pass_out.insts) :
            pass_out.insts[i].op # "BranchIfNotZero" => pass_out.insts[i].destination = 0

(***************************************************************************)
(* The length of the IR through the passes and the convergence loop.       *)
(***************************************************************************)
\* The IR that the single pass which gave `result` started from.
SinglePassInput == IF pc = "optimise" THEN unlinked ELSE result

\* C22: the output of combine_clears, of group_instructions, of reorder and
\* of combine_multiply_loops is at most as long as the linked IR the pass
\* was given, and the result of every single pass of optimise is at most
\* as long as the IR that pass started from.
C22_PassesNeverLengthen ==
    /\ []((pc = "pass_output" /\ pass_out.tag = "Ok") =>
              Len(pass_out.insts) <= Len(linked))
    /\ [][(pc \in {"optimise", "loop"} /\ pc' = "loop") =>
              Len(result') <= Len(SinglePassInput)]_vars

\* reorder at its limit: the moves of a run are dropped, one IncrDp is
\* appended, and the output is as long as the input.
C22_Witness ==
    /\ pc = "pass_output"
    /\ pass = "reorder"
    /\ pass_out.tag = "Ok"
    /\ Len(pass_out.insts) = Len(linked)
    /\ pass_out.insts # linked
    /\ \E k \in 1..Len(linked) : linked[k].op = "IncrDp"
    /\ pass_out.insts[Len(pass_out.insts)].op = "IncrDp"

\* The same at the convergence loop: a turn of the loop has run and the
\* result is shorter than the input of optimise.
C22_LoopWitness == pc = "loop" /\ counter > 0 /\ Len(result) < Len(unlinked)

============================================================================
